---- MODULE Spec2Model ----
(***************************************************************************)
(* The Autograd batch-execution interface of PennyLane                     *)
(* (pennylane/interfaces/batch/autograd.py): execute, the differentiable   *)
(* primitive _execute and the gradient rule vjp.grad_fn, as a state        *)
(* machine over the caller's tapes, the call stack and the chain of        *)
(* primitive nodes that the forward passes register.                       *)
(***************************************************************************)
EXTENDS Integers, Sequences, FiniteSets, TLC

VARIABLES
    tapes,        \* tapes[k]: the batch (a sequence of tapes) of the execute call at chain position k
    stack,        \* the call stack: frames of execute and grad_fn calls in progress
    chain,        \* chain[k]: the primitive node registered by the k-th execute call of the chain
    args,         \* the arguments of the caller's last top-level call
    calls,        \* calls made so far by the current (or last) top-level operation
    deviceCalled, \* a device call has been made since the caller's last top-level call
    raised,       \* what the device raised in the current top-level operation
    outcome,      \* what the last completed top-level operation handed to the caller
    kernel,       \* the call of a kernel cost function: its arguments and its return value
    basis         \* the call of a basis-set function: its arguments and its return value

vars == <<tapes, stack, chain, args, calls, deviceCalled, raised, outcome, kernel, basis>>

(***************************************************************************)
(* Bounds and input domains                                                *)
(***************************************************************************)
\* The longest chain of nested execute calls the model follows.
MaxNest == 3

\* Parameter values; a tape parameter is a value v wrapped in box levels of
\* graph tracking (ArrayBox): a tracked 0 or a plain 1.
Vals == {0, 1}
Param == {[v |-> 0, box |-> 1], [v |-> 1, box |-> 0]}

\* The caller's batch: two tapes, ragged in parameters and in result shape.
TapeSizes == <<2, 1>>
TapeShapes == <<"scalar", "vector">>

\* Upstream gradients handed to grad_fn by the autodiff engine.
DyVals == {1, 2}

\* The values of max_diff a caller passes.
MaxDiffs == {1, 2}
DyBoxes == {0, 1, 2}

Device == "dev"
OtherDevice == "dev2"

\* gradient_fn: whether its module is in pennylane.gradients, and the object it
\* is bound to ("none": not a bound method).
GradientFns == [inGradients : BOOLEAN, self : {"none", Device, OtherDevice}]

\* execute_fn: whether it returns Jacobians with the results.
ExecuteFns == [returnsJacs : BOOLEAN]

DeviceFailures == {"DeviceError", "TimeoutError"}

Modes == {"forward", "backward"}

(***************************************************************************)
(* Errors                                                                  *)
(***************************************************************************)
NoError == [type |-> "none", msg |-> <<>>]

UnknownGradientFunctionError ==
    [type |-> "ValueError", msg |-> <<"Unknown", "gradient", "function", "!!!">>]

ForwardModeError ==
    [type |-> "ValueError",
     msg |-> <<"Gradient", "transforms", "cannot", "be", "used", "with", "mode='forward'">>]

\* The engine's error for a result that was computed without any tracked input.
NoGradientPathError ==
    [type |-> "RuntimeError",
     msg |-> <<"element", "0", "of", "tensors", "does", "not", "require", "grad",
               "and", "does", "not", "have", "a", "grad_fn">>]

DeviceException(e) == [type |-> e, msg |-> <<"device", "failure">>]

\* pytest.raises(..., match=pat): pat occurs in the message.
Matches(msg, pat) ==
    \E i \in 1..(Len(msg) - Len(pat) + 1) : SubSeq(msg, i, i + Len(pat) - 1) = pat

(***************************************************************************)
(* Sequences                                                               *)
(***************************************************************************)
RECURSIVE Flatten(_)
Flatten(ss) == IF ss = <<>> THEN <<>> ELSE Head(ss) \o Flatten(Tail(ss))

RECURSIVE SumSeq(_)
SumSeq(s) == IF s = <<>> THEN 0 ELSE Head(s) + SumSeq(Tail(s))

Top(s) == s[Len(s)]

(***************************************************************************)
(* pennylane/kernels/cost_functions.py: task_model_alignment               *)
(***************************************************************************)
\* The largest number of data points of a dataset.
MaxPoints == 3

\* Task weights w_k and kernel eigenvalues lambda_k.
TaskWeights == {-1, 1, 2}
KernelEvals == {0, 1, 2}

\* qml.math.dot(x, y) of two vectors of the same length.
Dot(x, y) == SumSeq([k \in 1..Len(x) |-> x[k] * y[k]])

\* x[:N]
Slice(x, N) == SubSeq(x, 1, N)

\* numerator / denominator: the quotient as a fraction; a zero denominator
\* gives no number.
Divide(numerator, denominator) ==
    [num |-> numerator, den |-> denominator, finite |-> denominator # 0]

\* The quotient with every task weight squared before the products are summed.
TaskModelAlignmentSquared(N, task_weights, kernel_evals) ==
    LET sq == [k \in 1..Len(task_weights) |-> task_weights[k] * task_weights[k]]
    IN  Divide(Dot(Slice(sq, N), Slice(kernel_evals, N)), Dot(sq, kernel_evals))

\* task_model_alignment(N, task_weights, kernel_evals)
TaskModelAlignment(N, task_weights, kernel_evals) ==
    LET numerator == Dot(Slice(task_weights, N), Slice(kernel_evals, N))
        denominator == Dot(task_weights, kernel_evals)
    IN  Divide(numerator, denominator)

NoKernelCall ==
    [fn |-> "none", N |-> 0, task_weights |-> <<>>, kernel_evals |-> <<>>,
     X |-> <<>>, Y |-> <<>>, kernel |-> "none", assume_normalized_kernel |-> FALSE,
     rescale_class_labels |-> TRUE, result |-> Divide(0, 0), returned |-> FALSE]

\* The calls of task_model_alignment: a dataset of 1..MaxPoints points, its
\* weights and eigenvalues, and an index N up to the number of points.
TaskModelAlignmentCalls ==
    UNION {{[NoKernelCall EXCEPT !.fn = "task_model_alignment", !.N = n,
                                  !.task_weights = w, !.kernel_evals = l] :
                n \in 0..m, w \in [1..m -> TaskWeights], l \in [1..m -> KernelEvals]} :
           m \in 1..MaxPoints}

(***************************************************************************)
(* pennylane/kernels/cost_functions.py: polarity and target_alignment      *)
(***************************************************************************)
\* Datapoints, class labels and the kernel functions a caller passes: the
\* overlap kernel is normalized, the product kernel is not.
Datapoints == {0, 1}
ClassLabels == {-1, 1}
KernelFns == {"overlap", "product"}

\* kernel(x1, x2)
KernelValue(k, x1, x2) ==
    IF k = "overlap" THEN (IF x1 = x2 THEN 1 ELSE 0) ELSE (x1 + 1) * (x2 + 1)

\* square_kernel_matrix(X, kernel, assume_normalized_kernel): the kernel on
\* every pair of datapoints, the diagonal taken as 1 for a kernel that is
\* assumed normalized.
SquareKernelMatrix(X, k, assume_normalized_kernel) ==
    [i \in 1..Len(X) |->
        [j \in 1..Len(X) |->
            IF assume_normalized_kernel /\ i = j THEN 1 ELSE KernelValue(k, X[i], X[j])]]

\* np.count_nonzero(np.array(Y) == 1)
CountPlus(Y) == Cardinality({i \in 1..Len(Y) : Y[i] = 1})

\* The labels of polarity as fractions over one denominator: y / nplus for
\* y == 1 and y / nminus otherwise when the labels are rescaled, Y as it is
\* otherwise.
Labels(Y, rescale_class_labels) ==
    LET nplus == CountPlus(Y)
        nminus == Len(Y) - nplus
        d == IF ~rescale_class_labels THEN 1
             ELSE (IF nplus = 0 THEN 1 ELSE nplus) * (IF nminus = 0 THEN 1 ELSE nminus)
    IN  [num |-> [i \in 1..Len(Y) |->
                     IF ~rescale_class_labels THEN Y[i]
                     ELSE IF Y[i] = 1 THEN Y[i] * (d \div nplus)
                     ELSE Y[i] * (d \div nminus)],
         den |-> d]

\* np.outer(_Y, _Y), entries over the denominator den * den.
Outer(y) == [i \in 1..Len(y) |-> [j \in 1..Len(y) |-> y[i] * y[j]]]

\* The sum of the entrywise products of two square matrices.
EntrywiseSum(A, B) ==
    SumSeq([i \in 1..Len(A) |-> SumSeq([j \in 1..Len(A) |-> A[i][j] * B[i][j]])])

\* frobenius_inner_product(A, B, normalize) with the entries of B over the
\* denominator den: the inner product, divided by the norms of A and B when
\* normalize is set. The value is inner / den, or inner / sqrt(aa * bb).
FrobeniusInnerProduct(A, B, den, normalize) ==
    [inner |-> EntrywiseSum(A, B),
     den |-> IF normalize THEN 1 ELSE den,
     aa |-> IF normalize THEN EntrywiseSum(A, A) ELSE 1,
     bb |-> IF normalize THEN EntrywiseSum(B, B) ELSE 1,
     normalized |-> normalize]

\* polarity(X, Y, kernel, assume_normalized_kernel, rescale_class_labels, normalize)
Polarity(X, Y, k, assume_normalized_kernel, rescale_class_labels, normalize) ==
    LET K == SquareKernelMatrix(X, k, assume_normalized_kernel)
        y == Labels(Y, rescale_class_labels)
        T == Outer(y.num)
    IN  FrobeniusInnerProduct(K, T, y.den * y.den, normalize)

\* An alias that leaves the keyword arguments of polarity at their defaults.
TargetAlignmentDefaults(X, Y, k, assume_normalized_kernel, rescale_class_labels) ==
    Polarity(X, Y, k, FALSE, TRUE, TRUE)

\* target_alignment(X, Y, kernel, assume_normalized_kernel, rescale_class_labels)
TargetAlignment(X, Y, k, assume_normalized_kernel, rescale_class_labels) ==
    Polarity(X, Y, k, assume_normalized_kernel, rescale_class_labels, TRUE)

\* The calls of target_alignment: a dataset of 1..MaxPoints labelled points,
\* a kernel function and the two keyword arguments.
TargetAlignmentCalls ==
    UNION {{[NoKernelCall EXCEPT !.fn = "target_alignment", !.X = x, !.Y = y,
                                  !.kernel = k, !.assume_normalized_kernel = a,
                                  !.rescale_class_labels = r] :
                x \in [1..m -> Datapoints], y \in [1..m -> ClassLabels],
                k \in KernelFns, a \in BOOLEAN, r \in BOOLEAN} :
           m \in 1..MaxPoints}

(***************************************************************************)
(* qchem/pennylane_qchem/hf/basis_set.py: atom_basis_data, mol_basis_data  *)
(***************************************************************************)
\* The longest list of atomic symbols of a molecule.
MaxAtoms == 2

\* The atoms of the basis-set data: the elements of the first two rows.
Atoms == {"H", "He", "Li", "Be", "B", "C", "N", "O", "F", "Ne"}

\* basis["orbitals"]: one S shell for the first row, an S and an SP shell
\* for the second.
Orbitals(atom) == IF atom \in {"H", "He"} THEN <<"S">> ELSE <<"S", "SP">>

\* basis["exponents"]: one list of exponents per orbital.
Exponents(atom) ==
    [i \in 1..Len(Orbitals(atom)) |-> [atom |-> atom, shell |-> i, data |-> "exponents"]]

\* basis["coefficients"]: one list of contraction coefficients per S orbital
\* and two per SP orbital, the one of its s term and then the one of its p
\* term, in the order of the orbitals.
Coefficients(atom) ==
    Flatten([i \in 1..Len(Orbitals(atom)) |->
        IF Orbitals(atom)[i] = "S"
        THEN <<[atom |-> atom, shell |-> i, term |-> "S"]>>
        ELSE <<[atom |-> atom, shell |-> i, term |-> "S"],
               [atom |-> atom, shell |-> i, term |-> "P"]>>])

\* basis_sets[name][atom]
BasisSets(name, atom) ==
    [orbitals |-> Orbitals(atom), exponents |-> Exponents(atom),
     coefficients |-> Coefficients(atom)]

\* seq[i] of a Python list: indices count from 0.
Item(seq, i) == seq[i + 1]

\* s = [(0, 0, 0)] and p = [(0, 0, 1), (0, 1, 0), (1, 0, 0)]
AngularS == <<<<0, 0, 0>>>>
AngularP == <<<<0, 0, 1>>, <<0, 1, 0>>, <<1, 0, 0>>>>

\* The entries that orbital i of the data adds to params, with the p terms
\* taking the coefficients of the s term.
OrbitalEntriesSameCoefficients(data, i) ==
    LET j == Item(data.orbitals, i)
        sEntry == <<Item(AngularS, 0), Item(data.exponents, i), Item(data.coefficients, i)>>
    IN  IF j = "S" THEN <<sEntry>>
        ELSE IF j = "SP"
        THEN <<sEntry>> \o
             [l \in 1..Len(AngularP) |->
                <<AngularP[l], Item(data.exponents, i), Item(data.coefficients, i)>>]
        ELSE <<>>

\* The entries that orbital i of the data adds to params: one for "S"; for
\* "SP" one for the term S and, for the term P, one per angular momentum of p.
OrbitalEntries(data, i) ==
    LET j == Item(data.orbitals, i)
        sEntry == <<Item(AngularS, 0), Item(data.exponents, i), Item(data.coefficients, i)>>
    IN  IF j = "S" THEN <<sEntry>>
        ELSE IF j = "SP"
        THEN <<sEntry>> \o
             [l \in 1..Len(AngularP) |->
                <<AngularP[l], Item(data.exponents, i), Item(data.coefficients, i + 1)>>]
        ELSE <<>>

\* atom_basis_data(name, atom)
AtomBasisData(name, atom) ==
    LET data == BasisSets(name, atom)
    IN  Flatten([i \in 1..Len(data.orbitals) |-> OrbitalEntries(data, i - 1)])

\* The loop of mol_basis_data over symbols[1..k] with the count taken from
\* the list built so far.
RECURSIVE MolLoopCumulative(_, _, _)
MolLoopCumulative(name, symbols, k) ==
    IF k = 0 THEN [n_basis |-> <<>>, basis_set |-> <<>>]
    ELSE LET acc == MolLoopCumulative(name, symbols, k - 1)
             atom == AtomBasisData(name, symbols[k])
         IN  [n_basis |-> acc.n_basis \o <<Len(acc.basis_set \o atom)>>,
              basis_set |-> acc.basis_set \o atom]

\* The loop of mol_basis_data over symbols[1..k]: n_basis += [len(basis)],
\* basis_set += basis.
RECURSIVE MolLoop(_, _, _)
MolLoop(name, symbols, k) ==
    IF k = 0 THEN [n_basis |-> <<>>, basis_set |-> <<>>]
    ELSE LET acc == MolLoop(name, symbols, k - 1)
             atom == AtomBasisData(name, symbols[k])
         IN  [n_basis |-> acc.n_basis \o <<Len(atom)>>,
              basis_set |-> acc.basis_set \o atom]

\* mol_basis_data counting the functions of the list built so far.
MolBasisDataCumulative(name, symbols) ==
    LET end == MolLoopCumulative(name, symbols, Len(symbols))
    IN  <<end.n_basis, end.basis_set>>

\* mol_basis_data(name, symbols): the pair (n_basis, tuple(basis_set)).
MolBasisData(name, symbols) ==
    LET end == MolLoop(name, symbols, Len(symbols))
    IN  <<end.n_basis, end.basis_set>>

NoBasisCall ==
    [fn |-> "none", name |-> "sto-3g", atom |-> "none", symbols |-> <<>>,
     result |-> <<>>, returned |-> FALSE]

\* The calls of atom_basis_data and of mol_basis_data: an atom of the data,
\* or a molecule of up to MaxAtoms of them.
AtomBasisDataCalls ==
    {[NoBasisCall EXCEPT !.fn = "atom_basis_data", !.atom = a] : a \in Atoms}

MolBasisDataCalls ==
    UNION {{[NoBasisCall EXCEPT !.fn = "mol_basis_data", !.symbols = ss] :
                ss \in [1..m -> Atoms]} : m \in 0..MaxAtoms}

(***************************************************************************)
(* Tapes and the scoped parameter substitution (qml.tape.Unwrap)           *)
(***************************************************************************)
\* t.get_parameters(): the tape's parameters, in the tape's order.
GetParameters(t) == t.params

\* A bundle that loses the grouping by tape: one flat list of parameters.
ParameterBundleFlat(batch) ==
    Flatten([i \in 1..Len(batch) |-> GetParameters(batch[i])])

\* autograd.builtins.tuple([autograd.builtins.list(t.get_parameters()) for t in tapes])
ParameterBundle(batch) == [i \in 1..Len(batch) |-> GetParameters(batch[i])]

\* A graph-tracking value converted to the plain number it wraps.
UnwrapParam(p) == [p EXCEPT !.box = 0]

\* Unwrap.__enter__: every tape holds plain numeric values.
UnwrapEnter(batch) ==
    [i \in 1..Len(batch) |->
        [batch[i] EXCEPT !.params = [j \in 1..Len(batch[i].params) |-> UnwrapParam(batch[i].params[j])]]]

\* What Unwrap.__enter__ keeps for __exit__: the original parameters.
UnwrapSaved(batch) == [i \in 1..Len(batch) |-> batch[i].params]

\* Unwrap.__exit__: every tape holds its original parameters again.
UnwrapExit(batch, saved) == [i \in 1..Len(batch) |-> [batch[i] EXCEPT !.params = saved[i]]]

\* A with statement that skips __exit__ when its body raises.
WithExitOnlyOnSuccess(batch, saved, raises) ==
    IF raises THEN batch ELSE UnwrapExit(batch, saved)

\* A with statement that runs __exit__ only when its body raises.
WithExitOnlyOnFailure(batch, saved, raises) ==
    IF raises THEN UnwrapExit(batch, saved) ELSE batch

\* "with qml.tape.Unwrap(*tapes):" leaves its block: __exit__ runs whether the
\* block returned or raised.
WithExit(batch, saved, raises) == UnwrapExit(batch, saved)

(***************************************************************************)
(* The device behind execute_fn and a device-bound gradient_fn             *)
(***************************************************************************)
ParamValues(t) == [j \in 1..Len(t.params) |-> t.params[j].v]

\* The result the device computes for one tape.
DeviceResult(t) == [v |-> SumSeq(ParamValues(t)), shape |-> t.shape, type |-> "ndarray"]

\* The Jacobian the device computes for one tape: one entry per parameter.
DeviceJacobian(t) == [j \in 1..Len(t.params) |-> (t.params[j].v + j) % 2]

\* np.tensor(r)
Tensor(r) == [r EXCEPT !.type = "tensor"]

\* np.tensor(res): the whole list as one array, every result brought to the
\* widest shape.
ConvertResultsUniform(res) ==
    [i \in 1..Len(res) |->
        [Tensor(res[i]) EXCEPT !.shape =
            IF \E m \in 1..Len(res) : res[m].shape = "vector" THEN "vector" ELSE @]]

\* [np.tensor(r) for r in res]: one conversion per tape.
ConvertResults(res) == [i \in 1..Len(res) |-> Tensor(res[i])]

\* execute returning the results followed by the Jacobians of _execute.
ExecuteReturnsAll(pair) == pair[1] \o pair[2]

\* execute returns _execute(...)[0]: the results, without the Jacobians.
ExecuteReturn(pair) == pair[1]

(***************************************************************************)
(* qml.gradients: classical VJPs, gradient tapes, output normalisation     *)
(***************************************************************************)
\* qml.gradients._vector_jacobian_products(dy, jacs, reduction="append")
VectorJacobianProducts(dy, jacs) ==
    [i \in 1..Len(jacs) |->
        [j \in 1..Len(jacs[i]) |-> [v |-> dy[i].v * jacs[i][j], box |-> dy[i].box]]]

\* One gradient tape per parameter of a tape: the tape with that parameter shifted.
ShiftTape(t, j) ==
    [t EXCEPT !.params[j] = [@ EXCEPT !.v = (@ + 1) % Cardinality(Vals)]]

\* qml.gradients.batch_vjp(tapes, dy, gradient_fn, reduction="append")[0]
BatchVjpTapes(batch, dy) ==
    Flatten([i \in 1..Len(batch) |->
                [j \in 1..Len(batch[i].params) |-> ShiftTape(batch[i], j)]])

\* Number of gradient tapes that come before those of tape i.
Offset(batch, i) == SumSeq([m \in 1..(i - 1) |-> Len(batch[m].params)])

\* qml.gradients.batch_vjp(...)[1]: the post-processing function, applied to
\* the results of the gradient tapes.
ProcessingFn(batch, dy, results) ==
    [i \in 1..Len(batch) |->
        [j \in 1..Len(batch[i].params) |->
            [v |-> dy[i].v * results[Offset(batch, i) + j].v, box |-> dy[i].box]]]

\* qml.math.to_numpy(v, max_depth): at most max_depth levels of wrapping removed.
ToNumpy(v, max_depth) ==
    [v EXCEPT !.box = IF @ > max_depth THEN @ - max_depth ELSE 0]

\* isinstance(v, ArrayBox)
IsArrayBox(v) == v.box > 0

\* Only the components that hold a wrapper are returned.
OutputNormalizationWrappersOnly(vjps, n) ==
    LET HoldsWrapper(c) == \E j \in 1..Len(c) : IsArrayBox(c[j])
        kept == SelectSeq(vjps, HoldsWrapper)
    IN  [i \in 1..Len(kept) |-> [j \in 1..Len(kept[i]) |-> ToNumpy(kept[i][j], n)]]

\* Every wrapper unwrapped completely, whatever the level of the call.
OutputNormalizationFull(vjps, n) ==
    [i \in 1..Len(vjps) |->
        [j \in 1..Len(vjps[i]) |-> [vjps[i][j] EXCEPT !.box = 0]]]

\* [qml.math.to_numpy(v, max_depth=_n) if isinstance(v, ArrayBox) else v for v in vjps]
OutputNormalization(vjps, n) ==
    [i \in 1..Len(vjps) |->
        [j \in 1..Len(vjps[i]) |->
            IF IsArrayBox(vjps[i][j]) THEN ToNumpy(vjps[i][j], n) ELSE vjps[i][j]]]

(***************************************************************************)
(* The gradient rule's decision procedure                                  *)
(***************************************************************************)
\* "pennylane.gradients" in inspect.getmodule(gradient_fn).__name__
IsGradientTransform(gradient_fn) == gradient_fn.inGradients

\* A check with inspect.isfunction in place of inspect.ismethod: no bound
\* method passes it.
IsDeviceFunction(gradient_fn, device) ==
    gradient_fn.self = "none" /\ gradient_fn.self = device

\* inspect.ismethod(gradient_fn) and gradient_fn.__self__ is device
IsDeviceMethod(gradient_fn, device) ==
    gradient_fn.self # "none" /\ gradient_fn.self = device

\* A gradient rule that classifies gradient_fn before it looks at the Jacobians.
BranchIgnoringJacs(jacs, gradient_fn, device) ==
    IF IsGradientTransform(gradient_fn) THEN "transform"
    ELSE IF IsDeviceMethod(gradient_fn, device) THEN "device"
    ELSE IF jacs # <<>> THEN "stored"
    ELSE "unknown"

\* A gradient rule that tests for a device method before it tests for a
\* gradient transform.
BranchDeviceFirst(jacs, gradient_fn, device) ==
    IF jacs # <<>> THEN "stored"
    ELSE IF IsDeviceMethod(gradient_fn, device) THEN "device"
    ELSE IF IsGradientTransform(gradient_fn) THEN "transform"
    ELSE "unknown"

\* A gradient rule that takes any bound method for a method of the device.
BranchAnyMethod(jacs, gradient_fn, device) ==
    IF jacs # <<>> THEN "stored"
    ELSE IF IsGradientTransform(gradient_fn) THEN "transform"
    ELSE IF gradient_fn.self # "none" THEN "device"
    ELSE "unknown"

\* A gradient rule that rejects an unrecognized gradient_fn before it looks at
\* the Jacobians.
BranchClassifyFirst(jacs, gradient_fn, device) ==
    IF ~IsGradientTransform(gradient_fn) /\ ~IsDeviceMethod(gradient_fn, device)
    THEN "unknown"
    ELSE IF jacs # <<>> THEN "stored"
    ELSE IF IsGradientTransform(gradient_fn) THEN "transform"
    ELSE "device"

\* The branch grad_fn takes: if jacs / if transform / elif device method / else.
BranchOf(jacs, gradient_fn, device) ==
    IF jacs # <<>> THEN "stored"
    ELSE IF IsGradientTransform(gradient_fn) THEN "transform"
    ELSE IF IsDeviceMethod(gradient_fn, device) THEN "device"
    ELSE "unknown"

\* A recursion that re-enters execute at its own level.
SameLevel(n) == n

\* execute(..., _n=_n + 1)
NextLevel(n) == n + 1

\* def execute(tapes, device, execute_fn, gradient_fn, _n=1)
DefaultLevel == 1

(***************************************************************************)
(* Frames, nodes and outcomes                                              *)
(***************************************************************************)
ZeroCalls == [execute |-> 0, execute_fn |-> 0, gradient_fn |-> 0, batch_vjp |-> 0]

NoArgs ==
    [via |-> "none", mode |-> "none", max_diff |-> 0, device |-> Device,
     execute_fn |-> [returnsJacs |-> FALSE],
     gradient_fn |-> [inGradients |-> FALSE, self |-> "none"], reused |-> FALSE]

NoOutcome ==
    [op |-> "none", status |-> "none", branch |-> "none", res |-> <<>>, vjps |-> <<>>,
     raw |-> <<>>, err |-> NoError, k |-> 0, n |-> 0, dy |-> <<>>, before |-> <<>>,
     req |-> 0, reqBefore |-> <<>>]

\* The frame of execute(tapes, device, execute_fn, gradient_fn, _n) while
\* execute_fn(tapes) runs inside _execute's with block.
ExecuteFrame(batch, k, device, execute_fn, gradient_fn, n) ==
    [fn |-> "execute", n |-> n, k |-> k, dy |-> <<>>,
     parameters |-> ParameterBundle(batch), saved |-> UnwrapSaved(batch),
     device |-> device, execute_fn |-> execute_fn, gradient_fn |-> gradient_fn]

\* The frame of grad_fn(dy) of the node at chain position k.
GradFrame(node, batch, k, dy) ==
    [fn |-> "grad_fn", n |-> node.n, k |-> k, dy |-> dy,
     parameters |-> ParameterBundle(batch), saved |-> UnwrapSaved(batch),
     device |-> node.device, execute_fn |-> node.execute_fn,
     gradient_fn |-> node.gradient_fn]

\* autograd.extend.defvjp(_execute, vjp, argnums=[0]): the positions of the
\* positional arguments the primitive is differentiable in.
Argnums == <<0>>

\* The arguments of a call that the engine differentiates.
DifferentiableArguments(positional) ==
    [a \in 1..Len(Argnums) |-> positional[Argnums[a] + 1]]

\* What autograd.extend.defvjp keeps for the gradient rule of one _execute
\* call: ans[1], the differentiable arguments and the keyword arguments of
\* the call, _execute(parameters, tapes=..., ...).
Node(f, jacs) ==
    [n |-> f.n, jacs |-> jacs, parameters |-> f.parameters, device |-> f.device,
     execute_fn |-> f.execute_fn, gradient_fn |-> f.gradient_fn,
     diffargs |-> DifferentiableArguments(<<f.parameters>>)]

\* A frame that turns the exception into a ValueError.
FrameConverts(f, exc) == [type |-> "ValueError", msg |-> exc.msg]

\* An exception passing through a frame of execute, _execute or grad_fn:
\* none of them has an except clause.
FramePasses(f, exc) == exc

RECURSIVE Propagate(_, _)
Propagate(frames, exc) ==
    IF frames = <<>> THEN exc
    ELSE Propagate(SubSeq(frames, 1, Len(frames) - 1), FramePasses(Top(frames), exc))

\* The upstream gradients the engine may hand to the rule of a batch: the
\* gradient of the first result is wrapped to any depth, the others are
\* plain; one gradient per depth.
DyFor(batch) ==
    {[i \in 1..Len(batch) |->
        [v |-> ((p[1] + i) % 2) + 1, box |-> IF i = 1 THEN p[2] ELSE 0]] :
        p \in {q \in DyVals \X DyBoxes : q[1] % 2 = q[2] % 2}}

\* The tapes of the batch that the caller gives new parameters between calls:
\* the last one.
ReusedTapes == {Len(TapeSizes)}

\* The parameter lists a tape of the batch can hold.
ParameterLists ==
    UNION {[1..m -> Param] : m \in {TapeSizes[i] : i \in 1..Len(TapeSizes)}}

Batches ==
    LET Lists == ParameterLists
    IN  {[i \in 1..Len(TapeSizes) |-> [params |-> ps[i], shape |-> TapeShapes[i]]] :
            ps \in {q \in [1..Len(TapeSizes) -> Lists] :
                        \A i \in 1..Len(TapeSizes) : Len(q[i]) = TapeSizes[i]}}

Init ==
    /\ tapes \in {<<b>> : b \in Batches}
    /\ stack = <<>>
    /\ chain = <<>>
    /\ args = NoArgs
    /\ calls = ZeroCalls
    /\ deviceCalled = FALSE
    /\ raised = NoError
    /\ outcome = NoOutcome
    /\ kernel = NoKernelCall
    /\ basis = NoBasisCall

\* tape.set_parameters(new): the caller gives tape i of the batch new
\* parameters, as many as it had, between two calls.
SetParameters(i, new) ==
    /\ stack = <<>>
    /\ i \in 1..Len(tapes[1])
    /\ Len(new) = Len(tapes[1][i].params)
    /\ new # tapes[1][i].params
    /\ tapes' = [tapes EXCEPT ![1][i].params = new]
    /\ args' = [args EXCEPT !.via = "set_parameters"]
    /\ outcome' = [NoOutcome EXCEPT !.op = "set_parameters"]
    /\ calls' = ZeroCalls
    /\ raised' = NoError
    /\ UNCHANGED <<stack, chain, deviceCalled>>

\* The tapes of the batch hold other parameters than the ones the previous
\* successful call of execute read.
Reused == chain # <<>> /\ chain[1].parameters # ParameterBundle(tapes[1])

\* Tapes that still hold the values of the previous call.
PreviouslyExecutedTapes ==
    IF chain # <<>> THEN UnwrapExit(tapes[1], chain[1].parameters) ELSE tapes[1]

\* The tapes that execute_fn is given: the tapes of the call, with the
\* parameters they hold when execute is called.
ExecutedTapes == tapes[1]

\* A forward pass that also asks the device for the Jacobians through gradient_fn.
ForwardCallsWithGradient ==
    [ZeroCalls EXCEPT !.execute = 1, !.execute_fn = 1, !.gradient_fn = 1]

\* The calls one forward pass makes: execute enters _execute, which calls
\* execute_fn(tapes) and nothing else.
ForwardCalls == [ZeroCalls EXCEPT !.execute = 1, !.execute_fn = 1]

\* A gradient rule that is registered as soon as _execute is entered.
NodesRegisteredAtEntry(f) == <<Node(f, <<>>)>>

\* The nodes the engine holds while _execute is running at the top level:
\* the rule of a call is registered when the primitive returns.
NodesAtEntry(f) == <<>>

(***************************************************************************)
(* The forward pass                                                        *)
(***************************************************************************)
\* execute up to the point where execute_fn(tapes) is running: the Parameter
\* Bundle is built, _execute is entered, the tapes are unwrapped.
EnterExecute(via, mode, max_diff, execute_fn, gradient_fn) ==
    /\ tapes' = <<UnwrapEnter(ExecutedTapes)>>
    /\ stack' = <<ExecuteFrame(tapes[1], 1, Device, execute_fn, gradient_fn, DefaultLevel)>>
    /\ chain' = NodesAtEntry(ExecuteFrame(tapes[1], 1, Device, execute_fn, gradient_fn,
                                          DefaultLevel))
    /\ args' = [via |-> via, mode |-> mode, max_diff |-> max_diff, device |-> Device,
                execute_fn |-> execute_fn, gradient_fn |-> gradient_fn,
                reused |-> Reused]
    /\ calls' = ForwardCalls
    /\ deviceCalled' = TRUE
    /\ raised' = NoError
    /\ outcome' = NoOutcome

\* The caller calls execute(tapes, device, execute_fn, gradient_fn).
Execute(execute_fn, gradient_fn) ==
    /\ stack = <<>>
    /\ EnterExecute("execute", "none", 0, execute_fn, gradient_fn)

\* A validation that lets every combination through.
ModeAlwaysValid(mode, gradient_fn) == TRUE

\* The mode selector is compatible with gradient_fn: a gradient transform
\* cannot be used with mode='forward'.
ModeValid(mode, gradient_fn) == ~(mode = "forward" /\ IsGradientTransform(gradient_fn))

\* The caller calls the interface-level execute(tapes, device, gradient_fn,
\* mode=..., max_diff=...), which validates the mode and then executes.
Dispatch(mode, gradient_fn, max_diff) ==
    /\ stack = <<>>
    /\ IF ModeValid(mode, gradient_fn)
       THEN EnterExecute("dispatch", mode, max_diff,
                         [returnsJacs |-> (mode = "forward")], gradient_fn)
       ELSE /\ tapes' = <<tapes[1]>>
            /\ stack' = <<>>
            /\ chain' = <<>>
            /\ args' = [via |-> "dispatch", mode |-> mode, max_diff |-> max_diff,
                        device |-> Device, execute_fn |-> [returnsJacs |-> TRUE],
                        gradient_fn |-> gradient_fn, reused |-> FALSE]
            /\ calls' = ZeroCalls
            /\ deviceCalled' = FALSE
            /\ raised' = NoError
            /\ outcome' = [NoOutcome EXCEPT !.op = "dispatch", !.status = "error",
                                            !.err = ForwardModeError]

\* execute_fn(tapes) returns (res, jacs): the with block is left, the results
\* are converted, the node is registered and execute returns; a recursive
\* execute returns into grad_fn, which post-processes and returns.
ExecuteFnReturns ==
    /\ stack # <<>>
    /\ Top(stack).fn = "execute"
    /\ LET f == Top(stack)
           batch == tapes[f.k]
           res == [i \in 1..Len(batch) |-> DeviceResult(batch[i])]
           jacs == IF f.execute_fn.returnsJacs
                   THEN [i \in 1..Len(batch) |-> DeviceJacobian(batch[i])]
                   ELSE <<>>
           out == ExecuteReturn(<<ConvertResults(res), jacs>>)
       IN  /\ tapes' = [tapes EXCEPT ![f.k] = WithExit(batch, f.saved, FALSE)]
           /\ chain' = Append(chain, Node(f, jacs))
           /\ IF Len(stack) = 1
              THEN outcome' = [NoOutcome EXCEPT !.op = "execute", !.status = "ok",
                                   !.res = out, !.k = f.k, !.n = f.n,
                                   !.before = f.parameters]
              ELSE LET g == stack[Len(stack) - 1]
                   IN  outcome' = [NoOutcome EXCEPT !.op = "grad_fn", !.status = "ok",
                                       !.branch = "transform", !.res = out,
                                       !.raw = ProcessingFn(tapes[g.k], g.dy, out),
                                       !.vjps = OutputNormalization(
                                                    ProcessingFn(tapes[g.k], g.dy, out), g.n),
                                       !.k = f.k, !.n = g.n, !.dy = g.dy,
                                       !.before = f.parameters,
                                       !.req = g.k, !.reqBefore = g.parameters]
    /\ stack' = <<>>
    /\ UNCHANGED <<args, calls, deviceCalled, raised>>

\* execute_fn(tapes) raises: the with block is left and the exception goes
\* up through every frame to the caller.
ExecuteFnRaises(e) ==
    /\ stack # <<>>
    /\ Top(stack).fn = "execute"
    /\ LET f == Top(stack)
           batch == tapes[f.k]
           exc == DeviceException(e)
       IN  /\ tapes' = [tapes EXCEPT ![f.k] = WithExit(batch, f.saved, TRUE)]
           /\ raised' = exc
           /\ outcome' = [NoOutcome EXCEPT
                              !.op = IF Len(stack) = 1 THEN "execute" ELSE "grad_fn",
                              !.status = "error",
                              !.branch = IF Len(stack) = 1 THEN "none" ELSE "transform",
                              !.err = Propagate(stack, exc),
                              !.k = f.k, !.n = stack[1].n, !.dy = stack[1].dy,
                              !.before = f.parameters,
                              !.req = IF Len(stack) = 1 THEN 0 ELSE stack[1].k,
                              !.reqBefore = IF Len(stack) = 1 THEN <<>>
                                            ELSE stack[1].parameters]
    /\ stack' = <<>>
    /\ UNCHANGED <<chain, args, calls, deviceCalled>>

(***************************************************************************)
(* The backward pass: grad_fn(dy) of the node at chain position k          *)
(***************************************************************************)
\* An engine that registers the rule of every call.
AlwaysTraced(parameters) == TRUE

\* The primitive registers its gradient rule only when its differentiable
\* argument, the Parameter Bundle, holds a graph-tracked value.
HasGradientPath(parameters) ==
    \E i \in 1..Len(parameters) : \E j \in 1..Len(parameters[i]) :
        IsArrayBox(parameters[i][j])

\* The engine asks the rule of node k for the VJP of dy.
Requested(k, dy) ==
    /\ stack = <<>>
    /\ k \in 1..Len(chain)
    /\ HasGradientPath(chain[k].parameters)
    /\ dy \in DyFor(tapes[k])

\* The caller differentiates a result that has no gradient path: the engine
\* fails, no rule runs.
DifferentiateUntracked(k) ==
    /\ stack = <<>>
    /\ k \in 1..Len(chain)
    /\ ~HasGradientPath(chain[k].parameters)
    /\ calls' = ZeroCalls
    /\ raised' = NoError
    /\ outcome' = [NoOutcome EXCEPT !.op = "differentiate", !.status = "error",
                       !.err = NoGradientPathError,
                       !.k = k, !.n = chain[k].n,
                       !.before = ParameterBundle(tapes[k]),
                       !.req = k, !.reqBefore = ParameterBundle(tapes[k])]
    /\ UNCHANGED <<tapes, stack, chain, args, deviceCalled>>

Branch(k) == BranchOf(chain[k].jacs, chain[k].gradient_fn, chain[k].device)

\* if jacs: the VJPs are computed from the stored Jacobians.
GradStored(k, dy) ==
    /\ Requested(k, dy)
    /\ Branch(k) = "stored"
    /\ calls' = ZeroCalls
    /\ raised' = NoError
    /\ outcome' = [NoOutcome EXCEPT !.op = "grad_fn", !.status = "ok", !.branch = "stored",
                       !.raw = VectorJacobianProducts(dy, chain[k].jacs),
                       !.vjps = OutputNormalization(
                                    VectorJacobianProducts(dy, chain[k].jacs), chain[k].n),
                       !.k = k, !.n = chain[k].n, !.dy = dy,
                       !.before = ParameterBundle(tapes[k]),
                       !.req = k, !.reqBefore = ParameterBundle(tapes[k])]
    /\ UNCHANGED <<tapes, stack, chain, args, deviceCalled>>

\* A gradient rule that works on tapes holding the parameters captured at the
\* forward call.
RequestTapesAtForward(k) ==
    [i \in 1..Len(tapes[k]) |-> [tapes[k][i] EXCEPT !.params = chain[k].parameters[i]]]

\* def vjp(ans, parameters, tapes=None, ...): grad_fn reads the tape objects of
\* the forward call when it runs, batch_vjp(tapes, ...) and gradient_fn(tapes).
RequestTapes(k) == tapes[k]

\* gradient_fn is a gradient transform: the gradient tapes are built and
\* execute is entered on them, up to the point where execute_fn is running.
GradTransform(k, dy) ==
    /\ Requested(k, dy)
    /\ Branch(k) = "transform"
    /\ k < MaxNest
    /\ LET node == chain[k]
           vjp_tapes == BatchVjpTapes(RequestTapes(k), dy)
       IN  /\ tapes' = SubSeq(tapes, 1, k) \o <<UnwrapEnter(vjp_tapes)>>
           /\ stack' = <<GradFrame(node, tapes[k], k, dy),
                         ExecuteFrame(vjp_tapes, k + 1, node.device, node.execute_fn,
                                      node.gradient_fn, NextLevel(node.n))>>
    /\ chain' = SubSeq(chain, 1, k)
    /\ calls' = [ZeroCalls EXCEPT !.batch_vjp = 1, !.execute = 1, !.execute_fn = 1]
    /\ deviceCalled' = TRUE
    /\ raised' = NoError
    /\ outcome' = NoOutcome
    /\ UNCHANGED args

\* gradient_fn is a method of the device: the tapes are unwrapped and
\* gradient_fn(tapes) is running.
GradDevice(k, dy) ==
    /\ Requested(k, dy)
    /\ Branch(k) = "device"
    /\ tapes' = [tapes EXCEPT ![k] = UnwrapEnter(RequestTapes(k))]
    /\ stack' = <<GradFrame(chain[k], tapes[k], k, dy)>>
    /\ calls' = [ZeroCalls EXCEPT !.gradient_fn = 1]
    /\ deviceCalled' = TRUE
    /\ raised' = NoError
    /\ outcome' = NoOutcome
    /\ UNCHANGED <<chain, args>>

\* gradient_fn(tapes) returns the Jacobians: the with block is left and the
\* VJPs are computed classically.
GradientFnReturns ==
    /\ stack # <<>>
    /\ Top(stack).fn = "grad_fn"
    /\ LET g == Top(stack)
           batch == tapes[g.k]
           jacs == [i \in 1..Len(batch) |-> DeviceJacobian(batch[i])]
       IN  /\ tapes' = [tapes EXCEPT ![g.k] = WithExit(batch, g.saved, FALSE)]
           /\ outcome' = [NoOutcome EXCEPT !.op = "grad_fn", !.status = "ok",
                              !.branch = "device",
                              !.raw = VectorJacobianProducts(g.dy, jacs),
                              !.vjps = OutputNormalization(
                                           VectorJacobianProducts(g.dy, jacs), g.n),
                              !.k = g.k, !.n = g.n, !.dy = g.dy,
                              !.before = g.parameters,
                              !.req = g.k, !.reqBefore = g.parameters]
    /\ stack' = <<>>
    /\ UNCHANGED <<chain, args, calls, deviceCalled, raised>>

\* gradient_fn(tapes) raises: the with block is left and the exception goes
\* up to the caller.
GradientFnRaises(e) ==
    /\ stack # <<>>
    /\ Top(stack).fn = "grad_fn"
    /\ LET g == Top(stack)
           batch == tapes[g.k]
           exc == DeviceException(e)
       IN  /\ tapes' = [tapes EXCEPT ![g.k] = WithExit(batch, g.saved, TRUE)]
           /\ raised' = exc
           /\ outcome' = [NoOutcome EXCEPT !.op = "grad_fn", !.status = "error",
                              !.branch = "device", !.err = Propagate(stack, exc),
                              !.k = g.k, !.n = g.n, !.dy = g.dy,
                              !.before = g.parameters,
                              !.req = g.k, !.reqBefore = g.parameters]
    /\ stack' = <<>>
    /\ UNCHANGED <<chain, args, calls, deviceCalled>>

\* A rule that calls gradient_fn before it finds it unknown.
GradUnknownAfterCall(k, dy) ==
    /\ Requested(k, dy)
    /\ Branch(k) = "unknown"
    /\ calls' = [ZeroCalls EXCEPT !.gradient_fn = 1]
    /\ raised' = NoError
    /\ outcome' = [NoOutcome EXCEPT !.op = "grad_fn", !.status = "error",
                       !.branch = "unknown", !.err = UnknownGradientFunctionError,
                       !.k = k, !.n = chain[k].n, !.dy = dy,
                       !.before = ParameterBundle(tapes[k]),
                       !.req = k, !.reqBefore = ParameterBundle(tapes[k])]
    /\ UNCHANGED <<tapes, stack, chain, args, deviceCalled>>

\* else: raise ValueError("Unknown gradient function!!!")
GradUnknown(k, dy) ==
    /\ Requested(k, dy)
    /\ Branch(k) = "unknown"
    /\ calls' = ZeroCalls
    /\ raised' = NoError
    /\ outcome' = [NoOutcome EXCEPT !.op = "grad_fn", !.status = "error",
                       !.branch = "unknown", !.err = UnknownGradientFunctionError,
                       !.k = k, !.n = chain[k].n, !.dy = dy,
                       !.before = ParameterBundle(tapes[k]),
                       !.req = k, !.reqBefore = ParameterBundle(tapes[k])]
    /\ UNCHANGED <<tapes, stack, chain, args, deviceCalled>>

\* One step of the interface; the kernel cost functions take no part in it.
Next ==
    \/ \E ef \in ExecuteFns, gf \in GradientFns : Execute(ef, gf)
            /\ UNCHANGED <<kernel, basis>>
    \/ \E m \in Modes, gf \in GradientFns, md \in MaxDiffs : Dispatch(m, gf, md)
            /\ UNCHANGED <<kernel, basis>>
    \/ ExecuteFnReturns
            /\ UNCHANGED <<kernel, basis>>
    \/ \E e \in DeviceFailures : ExecuteFnRaises(e)
            /\ UNCHANGED <<kernel, basis>>
    \/ \E k \in 1..Len(chain) : \E dy \in DyFor(tapes[k]) : GradStored(k, dy)
            /\ UNCHANGED <<kernel, basis>>
    \/ \E k \in 1..Len(chain) : \E dy \in DyFor(tapes[k]) : GradTransform(k, dy)
            /\ UNCHANGED <<kernel, basis>>
    \/ \E k \in 1..Len(chain) : \E dy \in DyFor(tapes[k]) : GradDevice(k, dy)
            /\ UNCHANGED <<kernel, basis>>
    \/ GradientFnReturns
            /\ UNCHANGED <<kernel, basis>>
    \/ \E e \in DeviceFailures : GradientFnRaises(e)
            /\ UNCHANGED <<kernel, basis>>
    \/ \E k \in 1..Len(chain) : \E dy \in DyFor(tapes[k]) : GradUnknown(k, dy)
            /\ UNCHANGED <<kernel, basis>>
    \/ \E k \in 1..Len(chain) : DifferentiateUntracked(k)
            /\ UNCHANGED <<kernel, basis>>
    \/ \E i \in ReusedTapes : \E new \in ParameterLists : SetParameters(i, new)
            /\ UNCHANGED <<kernel, basis>>

Spec == Init /\ [][Next]_vars

(***************************************************************************)
(* Properties                                                              *)
(***************************************************************************)
\* The node whose gradient rule the last differentiation request ran.
RequestedNode == chain[outcome.req]

RequestDone == outcome.op = "grad_fn"

RequestRunning == stack # <<>> /\ stack[1].fn = "grad_fn"

\* C1: when the Jacobians stored by the forward pass are non-empty, a
\* differentiation request returns the VJPs of those Jacobians and the
\* upstream gradient, and between the request and its result there is no call
\* of execute_fn, of gradient_fn or of batch_vjp and no re-entry into execute.
C1_StoredJacobiansNoDeviceCall ==
    /\ (RequestDone /\ RequestedNode.jacs # <<>>) =>
            /\ outcome.status = "ok"
            /\ outcome.branch = "stored"
            /\ calls = ZeroCalls
            /\ outcome.vjps = OutputNormalization(
                                  VectorJacobianProducts(outcome.dy, RequestedNode.jacs),
                                  RequestedNode.n)
    /\ RequestRunning => chain[stack[1].k].jacs = <<>>

\* A request answered from stored Jacobians although gradient_fn is a method
\* of the device.
C1_Witness ==
    /\ RequestDone
    /\ outcome.branch = "stored"
    /\ RequestedNode.jacs # <<>>
    /\ RequestedNode.gradient_fn.self = Device
    /\ outcome.vjps # <<>>

\* C2: when the stored Jacobians are empty and gradient_fn is a gradient
\* transform, a differentiation request at level n builds the gradient tapes
\* of the batch, re-enters execute exactly once, on those tapes and at level
\* n + 1, and returns the post-processing function applied to the result of
\* that call.
C2_TransformRecursesOnce ==
    /\ (RequestRunning /\ chain[stack[1].k].jacs = <<>>
            /\ chain[stack[1].k].gradient_fn.inGradients) =>
            /\ Len(stack) = 2
            /\ stack[2].fn = "execute"
            /\ stack[2].n = chain[stack[1].k].n + 1
            /\ stack[2].parameters =
                   ParameterBundle(BatchVjpTapes(tapes[stack[1].k], stack[1].dy))
            /\ calls.batch_vjp = 1
            /\ calls.execute = 1
    /\ (RequestDone /\ RequestedNode.jacs = <<>> /\ RequestedNode.gradient_fn.inGradients) =>
            /\ outcome.branch = "transform"
            /\ calls.batch_vjp = 1
            /\ calls.execute = 1
            /\ calls.gradient_fn = 0
            /\ outcome.status = "ok" =>
                    /\ Len(chain) = outcome.req + 1
                    /\ chain[outcome.req + 1].n = RequestedNode.n + 1
                    /\ chain[outcome.req + 1].parameters = outcome.before
                    /\ outcome.vjps = OutputNormalization(
                                          ProcessingFn(tapes[outcome.req], outcome.dy,
                                                       outcome.res),
                                          RequestedNode.n)

\* A request served by the recursive call although gradient_fn is also bound
\* to the device.
C2_Witness ==
    /\ RequestDone
    /\ outcome.status = "ok"
    /\ outcome.branch = "transform"
    /\ RequestedNode.gradient_fn.self = Device
    /\ RequestedNode.n = 2
    /\ Len(chain) = 3

\* C3: when the stored Jacobians are empty and gradient_fn is no gradient
\* transform but a method of the device passed to execute, a differentiation
\* request calls gradient_fn once on the batch of the forward call and never
\* re-enters execute: no level above the node's own is ever entered.
C3_DeviceMethodNoRecursion ==
    /\ (RequestRunning /\ chain[stack[1].k].jacs = <<>>
            /\ ~chain[stack[1].k].gradient_fn.inGradients) =>
            /\ Len(stack) = 1
            /\ stack[1].n = chain[stack[1].k].n
            /\ calls = [ZeroCalls EXCEPT !.gradient_fn = 1]
            /\ ParameterBundle(tapes[stack[1].k]) =
                   ParameterBundle(UnwrapEnter(
                       UnwrapExit(tapes[stack[1].k], stack[1].parameters)))
    /\ (RequestDone /\ RequestedNode.jacs = <<>> /\ ~RequestedNode.gradient_fn.inGradients
            /\ RequestedNode.gradient_fn.self = RequestedNode.device) =>
            /\ outcome.branch = "device"
            /\ calls = [ZeroCalls EXCEPT !.gradient_fn = 1]
    /\ (~args.gradient_fn.inGradients) =>
            /\ Len(chain) <= 1
            /\ \A i \in 1..Len(stack) : stack[i].n = DefaultLevel

C3_Witness ==
    /\ RequestDone
    /\ outcome.status = "ok"
    /\ outcome.branch = "device"
    /\ outcome.vjps # <<>>
    /\ Len(chain) = 1

\* gradient_fn is neither a gradient transform nor a method of the device.
Unrecognized(gradient_fn, device) ==
    ~gradient_fn.inGradients /\ gradient_fn.self # device

UnknownGradientFunctionRaised ==
    /\ outcome.status = "error"
    /\ outcome.err.type = "ValueError"
    /\ Matches(outcome.err.msg, <<"Unknown", "gradient", "function">>)

\* C4 as stated: whenever gradient_fn is neither a gradient transform nor a
\* method of the device, a differentiation request fails with the ValueError
\* "Unknown gradient function".
C4_Original ==
    (RequestDone /\ Unrecognized(RequestedNode.gradient_fn, RequestedNode.device)) =>
        UnknownGradientFunctionRaised

\* C4, amended: when gradient_fn is neither a gradient transform nor a method
\* of the device, the forward execute call fails only if the device fails,
\* and otherwise returns results; a differentiation request on a node whose
\* stored Jacobians are empty then fails with a ValueError whose message
\* contains "Unknown gradient function", without any call of gradient_fn,
\* batch_vjp, execute_fn or execute.
C4_UnknownGradientFn ==
    /\ (outcome.op = "execute" /\ Unrecognized(args.gradient_fn, args.device)) =>
            \/ outcome.status = "ok" /\ Len(outcome.res) = Len(tapes[1])
            \/ outcome.status = "error" /\ outcome.err = raised /\ raised # NoError
    /\ (RequestDone /\ RequestedNode.jacs = <<>>
            /\ Unrecognized(RequestedNode.gradient_fn, RequestedNode.device)) =>
            /\ UnknownGradientFunctionRaised
            /\ outcome.branch = "unknown"
            /\ calls = ZeroCalls
            /\ outcome.vjps = <<>>
    /\ (RequestRunning /\ chain[stack[1].k].jacs = <<>>) =>
            ~Unrecognized(chain[stack[1].k].gradient_fn, chain[stack[1].k].device)

\* A request that fails on a method bound to another device.
C4_Witness ==
    /\ RequestDone
    /\ UnknownGradientFunctionRaised
    /\ RequestedNode.gradient_fn.self = OtherDevice
    /\ RequestedNode.jacs = <<>>

\* C5 as stated: the error of an unrecognized gradient_fn is raised before
\* the first device call.
C5_Original == UnknownGradientFunctionRaised => ~deviceCalled

\* C5, amended: the error of an unrecognized gradient_fn is raised by the
\* differentiation request, after the forward pass has called execute_fn on
\* the batch and returned; the request raises at once, before any further
\* device call, and nothing is retried.
C5_UnknownRaisedAtRequest ==
    UnknownGradientFunctionRaised =>
        /\ outcome.op = "grad_fn"
        /\ outcome.req = 1
        /\ Len(chain) = 1
        /\ deviceCalled
        /\ calls = ZeroCalls
        /\ raised = NoError
        /\ stack = <<>>

C5_Witness ==
    /\ UnknownGradientFunctionRaised
    /\ outcome.op = "grad_fn"
    /\ deviceCalled
    /\ args.via = "execute"
    /\ args.gradient_fn.self = "none"

\* C6: execute called with mode='forward' and a gradient-transform
\* gradient_fn fails with the ValueError "Gradient transforms cannot be used
\* with mode='forward'", and no device call has been made when it is raised.
C6_ForwardModeRejectsTransform ==
    (args.via = "dispatch" /\ args.mode = "forward" /\ args.gradient_fn.inGradients) =>
        /\ outcome.op = "dispatch"
        /\ outcome.status = "error"
        /\ outcome.err.type = "ValueError"
        /\ Matches(outcome.err.msg,
                   <<"Gradient", "transforms", "cannot", "be", "used", "with",
                     "mode='forward'">>)
        /\ ~deviceCalled
        /\ calls = ZeroCalls
        /\ stack = <<>>
        /\ chain = <<>>

C6_Witness ==
    /\ args.via = "dispatch"
    /\ args.mode = "forward"
    /\ args.gradient_fn.inGradients
    /\ outcome.op = "dispatch"
    /\ outcome.err = ForwardModeError

\* C7: along every chain of execute calls the nesting level is a positive
\* integer, 1 at the caller's top-level call and the parent's level plus 1 at
\* each re-entry by the gradient-transform branch; it never falls or resets
\* within the chain, and a new top-level call starts again at 1.
C7_NestingLevel ==
    /\ \A i \in 1..Len(chain) :
            /\ chain[i].n \in Nat \ {0}
            /\ i = 1 => chain[i].n = 1
            /\ i > 1 => chain[i].n = chain[i - 1].n + 1
    /\ \A i \in 1..Len(stack) :
            /\ stack[i].n \in Nat \ {0}
            /\ (stack[i].fn = "execute" /\ i = 1) => (stack[i].n = 1 /\ chain = <<>>)
            /\ (stack[i].fn = "execute" /\ i > 1) =>
                    /\ stack[i - 1].fn = "grad_fn"
                    /\ stack[i].n = stack[i - 1].n + 1
                    /\ stack[i].n = chain[Len(chain)].n + 1
            /\ stack[i].fn = "grad_fn" => stack[i].n = chain[stack[i].k].n

\* A chain of three nested execute calls.
C7_Witness ==
    /\ Len(chain) = 3
    /\ chain[3].n = 3
    /\ stack = <<>>

\* C8: when the caller supplies a ceiling max_diff, no execute call and no
\* node of the chain has a nesting level above it.
C8_Ceiling ==
    args.max_diff > 0 =>
        /\ \A i \in 1..Len(chain) : chain[i].n <= args.max_diff
        /\ \A i \in 1..Len(stack) : stack[i].n <= args.max_diff

DeviceFailed == outcome.status = "error" /\ outcome.err.type \in DeviceFailures

\* C9: if execute_fn or the device-bound gradient_fn fails while the tapes
\* hold plain numeric values, then when the error reaches the caller every
\* tape of the batch holds the parameters it held before the call: the same
\* values, in the same number and order.
C9_ExceptionSafeSubstitution ==
    (stack = <<>> /\ raised # NoError) =>
        /\ ParameterBundle(tapes[outcome.k]) = outcome.before
        /\ outcome.req > 0 => ParameterBundle(tapes[outcome.req]) = outcome.reqBefore

\* A failed device call on a batch that holds graph-tracking parameters.
C9_Witness ==
    /\ stack = <<>>
    /\ DeviceFailed
    /\ \E i \in 1..Len(outcome.before) : \E j \in 1..Len(outcome.before[i]) :
            outcome.before[i][j].box > 0
    /\ outcome.branch = "device"

\* C10: every execute call invokes execute_fn exactly once, whether the
\* invocation succeeds or fails, and a device failure reaches the caller
\* as it was raised: it is not retried, not replaced and not turned into a
\* result, and the failed call registers no node.
C10_DeviceFailurePropagates ==
    /\ calls.execute_fn = calls.execute
    /\ calls.execute <= 1
    /\ raised # NoError =>
            /\ stack = <<>>
            /\ outcome.status = "error"
            /\ outcome.err = raised
            /\ outcome.res = <<>>
            /\ outcome.vjps = <<>>
            /\ outcome.branch # "device" => Len(chain) = outcome.k - 1

\* A failure of the recursive execute call, seen by the caller of grad_fn.
C10_Witness ==
    /\ DeviceFailed
    /\ outcome.op = "grad_fn"
    /\ outcome.branch = "transform"
    /\ outcome.err = DeviceException("TimeoutError")
    /\ calls.execute_fn = 1

\* The call whose result the caller holds is a successful top-level execute.
ForwardDone == outcome.op = "execute" /\ outcome.status = "ok"

\* C11: a successful execute call returns a list with as many elements as
\* the batch has tapes, element i being the converted result that execute_fn
\* produced for tape i; the Jacobians that execute_fn returned are kept on
\* the node for the gradient rule and are not part of the returned value.
C11_ResultListOrdered ==
    ForwardDone =>
        /\ Len(outcome.res) = Len(tapes[1])
        /\ \A i \in 1..Len(tapes[1]) :
                outcome.res[i] = Tensor(DeviceResult(UnwrapEnter(tapes[1])[i]))
        /\ chain[1].jacs =
                IF args.execute_fn.returnsJacs
                THEN [i \in 1..Len(tapes[1]) |-> DeviceJacobian(UnwrapEnter(tapes[1])[i])]
                ELSE <<>>

\* A batch whose tapes give different results, with Jacobians returned by
\* execute_fn.
C11_Witness ==
    /\ ForwardDone
    /\ args.execute_fn.returnsJacs
    /\ chain[1].jacs # <<>>
    /\ outcome.res[1].v # outcome.res[2].v

\* C12: the results are converted one tape at a time: every result keeps
\* the shape of its own tape, also when the tapes of the batch have
\* different shapes, and results are never merged or padded to a common shape.
C12_RaggedShapesKept ==
    \A k \in 1..Len(chain) :
        (outcome.status = "ok" /\ outcome.k = k /\ outcome.res # <<>>) =>
            /\ Len(outcome.res) = Len(tapes[k])
            /\ \A i \in 1..Len(tapes[k]) :
                    /\ outcome.res[i].type = "tensor"
                    /\ outcome.res[i].shape = tapes[k][i].shape

\* A batch of a scalar-valued and a vector-valued tape.
C12_Witness ==
    /\ ForwardDone
    /\ outcome.res[1].shape = "scalar"
    /\ outcome.res[2].shape = "vector"

\* C13: the Parameter Bundle has one group per tape, in batch order, group i
\* holding the values of get_parameters() of tape i in the same order and
\* number, untransformed; the bundle is the single differentiable argument of
\* the primitive.
C13_ParameterBundle ==
    (outcome.status = "ok" /\ outcome.res # <<>> /\ outcome.k \in 1..Len(chain)) =>
        LET k == outcome.k
            node == chain[k]
        IN  /\ Len(node.parameters) = Len(tapes[k])
            /\ \A i \in 1..Len(tapes[k]) :
                    /\ Len(node.parameters[i]) = Len(tapes[k][i].params)
                    /\ \A j \in 1..Len(tapes[k][i].params) :
                            node.parameters[i][j] = tapes[k][i].params[j]
            /\ node.diffargs = <<node.parameters>>

\* Tapes with different numbers of parameters, a graph-tracked value among them.
C13_Witness ==
    /\ ForwardDone
    /\ Len(chain[1].parameters[1]) # Len(chain[1].parameters[2])
    /\ chain[1].parameters[1][1].box > 0
    /\ chain[1].parameters[1][2].box = 0

\* C14: in a request at nesting level n, every VJP component that is a
\* graph-tracking wrapper is unwrapped by at most n levels, n being the level
\* of the execute call that registered the rule, and every component that is
\* not a wrapper is returned unchanged.
C14_UnwrapDepth ==
    (RequestDone /\ outcome.status = "ok") =>
        LET n == RequestedNode.n
        IN  /\ Len(outcome.vjps) = Len(outcome.raw)
            /\ \A i \in 1..Len(outcome.raw) :
                    /\ Len(outcome.vjps[i]) = Len(outcome.raw[i])
                    /\ \A j \in 1..Len(outcome.raw[i]) :
                            LET before == outcome.raw[i][j]
                                after == outcome.vjps[i][j]
                            IN  /\ after.v = before.v
                                /\ after.box <= before.box
                                /\ before.box - after.box <= n
                                /\ after.box > 0 => before.box - after.box = n
                                /\ before.box = 0 => after = before

\* One request whose components are a wrapper deeper than the level, which
\* stays a wrapper, and a plain value.
C14_Witness ==
    /\ RequestDone
    /\ outcome.status = "ok"
    /\ RequestedNode.n = 1
    /\ outcome.raw[1][1].box = 2
    /\ outcome.vjps[1][1].box = 1
    /\ outcome.raw[2][1].box = 0

\* The top-level call asked for backward accumulation with a gradient method
\* of the device: execute_fn returns no Jacobians.
BackwardDeviceMethod ==
    /\ args.via # "none"
    /\ ~args.execute_fn.returnsJacs
    /\ IsDeviceMethod(args.gradient_fn, args.device)

\* The forward pass of the top-level call is running.
ForwardRunning == stack # <<>> /\ stack[1].fn = "execute"

\* C16: with backward accumulation and a gradient method of the device, the
\* forward pass performs exactly one device execution and does not invoke the
\* gradient method; the gradient method is invoked only after, and because
\* of, a differentiation request on the result.
C16_BackwardModeDefersGradient ==
    BackwardDeviceMethod =>
        /\ (ForwardRunning \/ ForwardDone) =>
                /\ calls.execute_fn = 1
                /\ calls.gradient_fn = 0
        /\ ForwardDone => chain[1].jacs = <<>>
        /\ calls.gradient_fn > 0 =>
                /\ RequestRunning \/ RequestDone
                /\ Len(chain) >= 1
                /\ calls.gradient_fn = 1
                /\ calls.execute_fn = 0

\* The forward pass has returned in backward mode: one device execution, the
\* gradient method not yet called.
C16_Witness ==
    /\ BackwardDeviceMethod
    /\ ForwardDone
    /\ args.mode = "backward"
    /\ deviceCalled
    /\ calls = [ZeroCalls EXCEPT !.execute = 1, !.execute_fn = 1]

\* C17: a successful execute call has no observable side effect on the
\* batch: after it returns every tape holds the parameter objects it held
\* before the call; plain numeric values are on the tapes only while
\* execute_fn or the gradient method of the device is running.
C17_NoSideEffectOnTapes ==
    /\ ForwardDone => ParameterBundle(tapes[1]) = outcome.before
    /\ (stack = <<>> /\ outcome.status = "ok" /\ outcome.k \in 1..Len(tapes)) =>
            ParameterBundle(tapes[outcome.k]) = outcome.before
    /\ (RequestRunning /\ Len(stack) = 2) =>
            ParameterBundle(tapes[stack[1].k]) = stack[1].parameters

\* A tape with a graph-tracked parameter after a successful forward pass.
C17_Witness ==
    /\ ForwardDone
    /\ outcome.before[1][1].box > 0
    /\ tapes[1][1].params[1].box > 0
    /\ calls.execute_fn = 1

\* Frame i of the stack is inside a call of the device.
InDeviceCall(i) ==
    \/ stack[i].fn = "execute"
    \/ stack[i].fn = "grad_fn" /\ i = Len(stack)

\* C19: calls are synchronous: at most one device call is in progress at
\* any time, a call returns to its caller only when no device call is in
\* progress, and an execute call, recursive ones included, runs only after
\* every forward call whose rule is registered has returned.
C19_Synchronous ==
    /\ Cardinality({i \in 1..Len(stack) : InDeviceCall(i)}) <= 1
    /\ calls.execute_fn + calls.gradient_fn <= 1
    /\ outcome.op # "none" => stack = <<>>
    /\ \A i \in 1..Len(stack) :
            stack[i].fn = "execute" =>
                /\ i = Len(stack)
                /\ Len(chain) = stack[i].k - 1
                /\ stack[i].k > 1 =>
                        /\ i = 2
                        /\ stack[1].fn = "grad_fn"
                        /\ stack[1].k = stack[i].k - 1

\* A recursive execute call is in the device, under the grad_fn of the node
\* that the returned forward call registered.
C19_Witness ==
    /\ Len(stack) = 2
    /\ stack[2].fn = "execute"
    /\ stack[2].k = 2
    /\ Len(chain) = 1
    /\ calls.execute_fn = 1

\* No parameter of the batch is trainable: the bundle holds plain values only.
NoTrainableParameter(bundle) ==
    \A i \in 1..Len(bundle) : \A j \in 1..Len(bundle[i]) : bundle[i][j].box = 0

\* C18: for a batch in which no tape parameter is trainable, the forward
\* execute call succeeds and returns results when the device does, and any
\* attempt to differentiate those results fails with an error, without a
\* call of gradient_fn or of the device.
C18_NoTrainableParameters ==
    /\ (stack = <<>> /\ outcome.op = "execute" /\ NoTrainableParameter(outcome.before)
            /\ raised = NoError) =>
            /\ outcome.status = "ok"
            /\ Len(outcome.res) = Len(tapes[1])
    /\ (outcome.req \in 1..Len(chain) /\ NoTrainableParameter(RequestedNode.parameters)) =>
            /\ outcome.op = "differentiate"
            /\ outcome.status = "error"
            /\ outcome.err = NoGradientPathError
            /\ outcome.vjps = <<>>
            /\ calls = ZeroCalls
    /\ RequestRunning => ~NoTrainableParameter(chain[stack[1].k].parameters)

\* The differentiation of the results of a batch of plain parameters has failed.
C18_Witness ==
    /\ outcome.op = "differentiate"
    /\ outcome.req = 1
    /\ NoTrainableParameter(chain[1].parameters)
    /\ deviceCalled
    /\ calls = ZeroCalls

\* What the device returns for a fresh tape that holds the parameters ps.
FreshResult(ps, shape) ==
    Tensor(DeviceResult([params |-> [j \in 1..Len(ps) |-> UnwrapParam(ps[j])],
                         shape |-> shape]))

\* C15: re-using a tape across calls never shows stale values: after any
\* sequence of set_parameters and execute calls, the results of a successful
\* execute call are the ones of a fresh tape holding the parameters the tape
\* holds at the time of that call, and the bundle of the call holds them too.
C15_NoStaleParameters ==
    ForwardDone =>
        /\ outcome.before = ParameterBundle(tapes[1])
        /\ chain[1].parameters = ParameterBundle(tapes[1])
        /\ \A i \in 1..Len(tapes[1]) :
                outcome.res[i] = FreshResult(tapes[1][i].params, tapes[1][i].shape)

\* A call on tapes whose parameters were replaced after an earlier call.
C15_Witness ==
    /\ ForwardDone
    /\ args.reused
    /\ outcome.res[1].v = 1

(***************************************************************************)
(* The kernel cost functions as calls on bounded inputs                    *)
(***************************************************************************)
KernelInit ==
    /\ tapes = <<>>
    /\ stack = <<>>
    /\ chain = <<>>
    /\ args = NoArgs
    /\ calls = ZeroCalls
    /\ deviceCalled = FALSE
    /\ raised = NoError
    /\ outcome = NoOutcome
    /\ kernel \in TaskModelAlignmentCalls \cup TargetAlignmentCalls
    /\ basis = NoBasisCall

\* task_model_alignment is called with the arguments chosen and returns.
TaskModelAlignmentCall ==
    /\ kernel.fn = "task_model_alignment"
    /\ ~kernel.returned
    /\ kernel' = [kernel EXCEPT
                      !.result = TaskModelAlignment(kernel.N, kernel.task_weights,
                                                    kernel.kernel_evals),
                      !.returned = TRUE]
    /\ UNCHANGED <<tapes, stack, chain, args, calls, deviceCalled, raised, outcome, basis>>

\* target_alignment is called with the arguments chosen and returns.
TargetAlignmentCall ==
    /\ kernel.fn = "target_alignment"
    /\ ~kernel.returned
    /\ kernel' = [kernel EXCEPT
                      !.result = TargetAlignment(kernel.X, kernel.Y, kernel.kernel,
                                                 kernel.assume_normalized_kernel,
                                                 kernel.rescale_class_labels),
                      !.returned = TRUE]
    /\ UNCHANGED <<tapes, stack, chain, args, calls, deviceCalled, raised, outcome, basis>>

KernelNext ==
    \/ TaskModelAlignmentCall
    \/ TargetAlignmentCall

KernelSpec == KernelInit /\ [][KernelNext]_vars

\* Two quotients are the same number.
SameQuotient(p, q) == p.finite /\ q.finite /\ p.num * q.den = q.num * p.den

\* C20: task_model_alignment(N, task_weights, kernel_evals) returns the
\* ratio of the sum over k <= N of w_k^2 * lambda_k to the sum over all k of
\* w_k^2 * lambda_k, for every N up to the number of data points.
C20_TaskModelAlignment ==
    (kernel.returned /\ kernel.fn = "task_model_alignment") =>
        LET documented == TaskModelAlignmentSquared(kernel.N, kernel.task_weights,
                                                    kernel.kernel_evals)
        IN  documented.finite => SameQuotient(kernel.result, documented)

\* C21: target_alignment(X, Y, kernel, assume_normalized_kernel,
\* rescale_class_labels) returns, for all inputs, the value of polarity
\* called with the same arguments and normalize=True.
C21_TargetAlignmentIsNormalizedPolarity ==
    (kernel.returned /\ kernel.fn = "target_alignment") =>
        kernel.result = Polarity(kernel.X, kernel.Y, kernel.kernel,
                                 kernel.assume_normalized_kernel,
                                 kernel.rescale_class_labels, TRUE)

\* A call with both keyword arguments away from their defaults, on a dataset
\* where each of them, and the normalization, changes the value.
C21_Witness ==
    /\ kernel.returned
    /\ kernel.fn = "target_alignment"
    /\ kernel.assume_normalized_kernel
    /\ ~kernel.rescale_class_labels
    /\ kernel.result.normalized
    /\ kernel.result # Polarity(kernel.X, kernel.Y, kernel.kernel, FALSE, FALSE, TRUE)
    /\ kernel.result # Polarity(kernel.X, kernel.Y, kernel.kernel, TRUE, TRUE, TRUE)
    /\ kernel.result.aa # 1

(***************************************************************************)
(* The basis-set functions as calls on the atoms of the data               *)
(***************************************************************************)
BasisInit ==
    /\ tapes = <<>>
    /\ stack = <<>>
    /\ chain = <<>>
    /\ args = NoArgs
    /\ calls = ZeroCalls
    /\ deviceCalled = FALSE
    /\ raised = NoError
    /\ outcome = NoOutcome
    /\ kernel = NoKernelCall
    /\ basis \in AtomBasisDataCalls \cup MolBasisDataCalls

\* atom_basis_data is called with the arguments chosen and returns.
AtomBasisDataCall ==
    /\ basis.fn = "atom_basis_data"
    /\ ~basis.returned
    /\ basis' = [basis EXCEPT !.result = AtomBasisData(basis.name, basis.atom),
                              !.returned = TRUE]
    /\ UNCHANGED <<tapes, stack, chain, args, calls, deviceCalled, raised, outcome, kernel>>

\* mol_basis_data is called with the arguments chosen and returns.
MolBasisDataCall ==
    /\ basis.fn = "mol_basis_data"
    /\ ~basis.returned
    /\ basis' = [basis EXCEPT !.result = MolBasisData(basis.name, basis.symbols),
                              !.returned = TRUE]
    /\ UNCHANGED <<tapes, stack, chain, args, calls, deviceCalled, raised, outcome, kernel>>

BasisNext ==
    \/ AtomBasisDataCall
    \/ MolBasisDataCall

BasisSpec == BasisInit /\ [][BasisNext]_vars

\* C22: mol_basis_data(name, symbols) returns (n_basis, params): n_basis has
\* one entry per symbol, in order, n_basis[k] is the number of basis
\* functions that atom_basis_data(name, symbols[k]) returns, params is the
\* concatenation of the per-atom lists in symbol order, and the sum of
\* n_basis is the length of params.
C22_MolBasisData ==
    (basis.returned /\ basis.fn = "mol_basis_data") =>
        LET n_basis == basis.result[1]
            params == basis.result[2]
            perAtom == [k \in 1..Len(basis.symbols) |->
                            AtomBasisData(basis.name, basis.symbols[k])]
        IN  /\ Len(basis.result) = 2
            /\ Len(n_basis) = Len(basis.symbols)
            /\ \A k \in 1..Len(basis.symbols) : n_basis[k] = Len(perAtom[k])
            /\ params = Flatten(perAtom)
            /\ SumSeq(n_basis) = Len(params)

\* A molecule of two atoms with different numbers of basis functions.
C22_Witness ==
    /\ basis.returned
    /\ basis.fn = "mol_basis_data"
    /\ basis.symbols = <<"Li", "H">>
    /\ basis.result[1] = <<5, 1>>
    /\ Len(basis.result[2]) = 6

\* The number of orbitals of the data that are of the kind given.
CountOrbitals(orbitals, kind) == Cardinality({i \in 1..Len(orbitals) : orbitals[i] = kind})

\* The entries the data of an atom should give for the orbital at position
\* i, counted from 1, of its orbital list.
ShellEntries(data, i) ==
    IF data.orbitals[i] = "S"
    THEN << <<<<0, 0, 0>>, data.exponents[i], data.coefficients[i]>> >>
    ELSE << <<<<0, 0, 0>>, data.exponents[i], data.coefficients[i]>>,
            <<<<0, 0, 1>>, data.exponents[i], data.coefficients[i + 1]>>,
            <<<<0, 1, 0>>, data.exponents[i], data.coefficients[i + 1]>>,
            <<<<1, 0, 0>>, data.exponents[i], data.coefficients[i + 1]>> >>

C24_VjpBundleShaped ==
    (RequestDone /\ outcome.status = "ok") =>
        LET bundle == RequestedNode.parameters
        IN  /\ outcome.branch \in {"stored", "transform", "device"}
            /\ Len(outcome.vjps) = Len(bundle)
            /\ Len(outcome.dy) = Len(bundle)
            /\ \A i \in 1..Len(bundle) :
                    /\ Len(outcome.vjps[i]) = Len(bundle[i])
                    /\ \A j \in 1..Len(bundle[i]) :
                            /\ outcome.vjps[i][j].v % outcome.dy[i].v = 0
                            /\ outcome.raw[i][j].box = outcome.dy[i].box

\* A ragged batch differentiated by the gradient transform, the first
\* component a wrapper and the second plain.
C24_Witness ==
    /\ RequestDone
    /\ outcome.status = "ok"
    /\ outcome.branch = "transform"
    /\ outcome.req = 1
    /\ Len(outcome.vjps) = 2
    /\ Len(outcome.vjps[1]) = 2
    /\ Len(outcome.vjps[2]) = 1
    /\ outcome.raw[1][1].box > 0
    /\ outcome.raw[2][1].box = 0

\* C25: the gradient rule classifies gradient_fn only when the stored
\* Jacobians are empty: a differentiation request on a node whose stored
\* Jacobians are non-empty returns without an error, whatever gradient_fn is,
\* and every request that ended in the transform, device or unknown branch was
\* made on a node whose stored Jacobians are empty.
C25_StoredJacobiansNeverUnknown ==
    /\ (RequestDone /\ RequestedNode.jacs # <<>>) =>
            /\ outcome.status = "ok"
            /\ outcome.err = NoError
            /\ raised = NoError
            /\ ~UnknownGradientFunctionRaised
    /\ (RequestDone /\ outcome.branch \in {"transform", "device", "unknown"}) =>
            RequestedNode.jacs = <<>>

\* A request that succeeds from stored Jacobians although gradient_fn is a
\* callable that is neither a gradient transform nor a bound method.
C25_Witness ==
    /\ RequestDone
    /\ outcome.status = "ok"
    /\ RequestedNode.jacs # <<>>
    /\ ~IsGradientTransform(RequestedNode.gradient_fn)
    /\ RequestedNode.gradient_fn.self = "none"
    /\ Len(outcome.vjps) = Len(RequestedNode.parameters)

\* The tapes of chain position k holding the Parameter Bundle that the forward
\* call captured.
TapesAtForward(k) ==
    [i \in 1..Len(tapes[k]) |-> [tapes[k][i] EXCEPT !.params = chain[k].parameters[i]]]

\* C26: the forward result is computed at the parameter values the tapes hold
\* when execute is called, and a differentiation request in the
\* gradient-transform or device-method branch works from the tapes as they are
\* when the request is made: the gradient tapes are those of the current
\* tapes and the device Jacobians are taken at the current parameter values,
\* also when set_parameters changed a tape after the forward call.
C26_GradientAtRequestTimeTapes ==
    /\ ForwardDone =>
            /\ outcome.before = chain[1].parameters
            /\ outcome.res = ConvertResults(
                   [i \in 1..Len(tapes[1]) |-> DeviceResult(UnwrapEnter(TapesAtForward(1))[i])])
    /\ (RequestDone /\ outcome.status = "ok" /\ outcome.branch = "transform") =>
            /\ outcome.reqBefore = ParameterBundle(tapes[outcome.req])
            /\ outcome.before =
                   ParameterBundle(BatchVjpTapes(tapes[outcome.req], outcome.dy))
            /\ outcome.res = ConvertResults(
                   [i \in 1..Len(outcome.before) |->
                       DeviceResult(UnwrapEnter(
                           BatchVjpTapes(tapes[outcome.req], outcome.dy))[i])])
    /\ (RequestDone /\ outcome.status = "ok" /\ outcome.branch = "device") =>
            /\ outcome.reqBefore = ParameterBundle(tapes[outcome.req])
            /\ outcome.raw = VectorJacobianProducts(
                   outcome.dy,
                   [i \in 1..Len(tapes[outcome.req]) |->
                       DeviceJacobian(UnwrapEnter(tapes[outcome.req])[i])])

\* A request in the gradient-transform branch on a tape that set_parameters
\* changed after the forward call: the gradient tapes are not those of the
\* captured Parameter Bundle.
C26_Witness ==
    /\ RequestDone
    /\ outcome.status = "ok"
    /\ outcome.branch = "transform"
    /\ outcome.req = 1
    /\ \E i \in 1..Len(RequestedNode.parameters) :
            \E j \in 1..Len(RequestedNode.parameters[i]) :
                RequestedNode.parameters[i][j].v # outcome.reqBefore[i][j].v
    /\ outcome.before #
            ParameterBundle(BatchVjpTapes(TapesAtForward(1), outcome.dy))

====
